---- MODULE Spec2Model ----
(***************************************************************************)
(* Model of markov-chain-rs: the insertion-ordered Map of src/types.rs and *)
(* the MarkovChain built on it.  Two state machines share the module:      *)
(*   MapSpec - one Map<K,V> driven through its public operations;          *)
(*   Spec    - one MarkovChain driven through train_word / train_text and  *)
(*             through writes of its caller to the public fields.          *)
(* Rust vectors are 0-based, TLA+ sequences 1-based: the entry the code    *)
(* holds at index i is element i + 1 here.  A panic ends the run of the    *)
(* machine it happens in.                                                  *)
(***************************************************************************)
EXTENDS Integers, Sequences, FiniteSets, TLC

\* ---------------------------------------------------------------- bounds
MaxLen == 3
MaxIter == 4
MaxOps == 4

Keys == {1, 2}
Vals == {1, 2}

\* ------------------------------------------------------- results of calls
Unit == [tag |-> "unit"]
None == [tag |-> "none"]
Panic == [tag |-> "panic"]
Some(v) == [tag |-> "some", val |-> v]
Bool(b) == [tag |-> "bool", val |-> b]

\* --------------------------------------------------------------- the Map
map_create == [keys |-> <<>>, values |-> <<>>, iterator_idx |-> 0]

clone(x) == x

\* positions (1-based) of the entries of m whose key is k
Matches(m, k) == {i \in 1..Len(m.keys) : m.keys[i] = k}

Lowest(S) == CHOOSE i \in S : \A j \in S : i <= j

insert(m, k, v) ==
    [m EXCEPT !.keys = Append(@, k), !.values = Append(@, v)]

\* set that overwrites every entry with the key
set_allMatches(m, k, v) ==
    IF Matches(m, k) # {}
    THEN [map |-> [m EXCEPT !.values = [i \in 1..Len(m.values) |->
                                          IF m.keys[i] = k THEN v ELSE m.values[i]]],
          res |-> TRUE]
    ELSE [map |-> m, res |-> FALSE]

\* set that writes the value but reports no match
set_reportsNoMatch(m, k, v) ==
    IF Matches(m, k) # {}
    THEN [map |-> [m EXCEPT !.values[Lowest(Matches(m, k))] = v], res |-> FALSE]
    ELSE [map |-> m, res |-> FALSE]

\* set returns the map and the boolean it reports
set(m, k, v) ==
    IF Matches(m, k) # {}
    THEN [map |-> [m EXCEPT !.values[Lowest(Matches(m, k))] = v], res |-> TRUE]
    ELSE [map |-> m, res |-> FALSE]

\* add that never tries set
add_alwaysInserts(m, k, v) == insert(m, k, v)

add(m, k, v) ==
    IF ~set(m, k, v).res THEN insert(m, k, v) ELSE set(m, k, v).map

\* get that keeps scanning and returns the last match
get_lastMatch(m, k) ==
    IF Matches(m, k) # {}
    THEN Some(m.values[CHOOSE i \in Matches(m, k) : \A j \in Matches(m, k) : j <= i])
    ELSE None

get(m, k) ==
    IF Matches(m, k) # {} THEN Some(m.values[Lowest(Matches(m, k))]) ELSE None

get_or_panic(m, k) ==
    IF Matches(m, k) # {} THEN Some(m.values[Lowest(Matches(m, k))]) ELSE Panic

\* Some(i) with i the 0-based index of the code
get_idx(m, k) ==
    IF Matches(m, k) # {} THEN Some(Lowest(Matches(m, k)) - 1) ELSE None

has(m, k) == \E i \in 1..Len(m.keys) : m.keys[i] = k

\* next that starts over once it has yielded None
next_restartsOnNone(m) ==
    LET idx == m.iterator_idx + 1
    IN  IF Len(m.keys) <= idx - 1
        THEN [map |-> [m EXCEPT !.iterator_idx = 0], res |-> None]
        ELSE [map |-> [m EXCEPT !.iterator_idx = idx],
              res |-> Some(<<m.keys[idx], m.values[idx]>>)]

\* next that leaves the position alone when nothing is left
next_staysOnNone(m) ==
    LET idx == m.iterator_idx + 1
    IN  IF Len(m.keys) <= idx - 1
        THEN [map |-> m, res |-> None]
        ELSE [map |-> [m EXCEPT !.iterator_idx = idx],
              res |-> Some(<<m.keys[idx], m.values[idx]>>)]

\* next whose bound test forgets the - 1: the last entry is never yielded
next_offByOne(m) ==
    LET idx == m.iterator_idx + 1
        m2 == [m EXCEPT !.iterator_idx = idx]
    IN  IF Len(m.keys) <= idx
        THEN [map |-> m2, res |-> None]
        ELSE [map |-> m2, res |-> Some(<<m.keys[idx], m.values[idx]>>)]

\* Iterator::next: the position advances first, also when nothing is left
next(m) ==
    LET idx == m.iterator_idx + 1
        m2 == [m EXCEPT !.iterator_idx = idx]
    IN  IF Len(m.keys) <= idx - 1
        THEN [map |-> m2, res |-> None]
        ELSE [map |-> m2, res |-> Some(<<m.keys[idx], m.values[idx]>>)]

index(m, k) == get_or_panic(m, k)

\* index_mut that hands out the last entry with the key
index_mut_lastMatch(m, k, v) ==
    IF ~has(m, k)
    THEN [map |-> m, res |-> Panic]
    ELSE [map |-> [m EXCEPT !.values[CHOOSE i \in Matches(m, k) :
                                       \A j \in Matches(m, k) : j <= i] = v],
          res |-> Unit]

\* IndexMut followed by the assignment through the returned reference
index_mut(m, k, v) ==
    IF ~has(m, k)
    THEN [map |-> m, res |-> Panic]
    ELSE IF get_idx(m, k).tag = "none"
         THEN [map |-> m, res |-> Panic]
         ELSE [map |-> [m EXCEPT !.values[get_idx(m, k).val + 1] = v],
               res |-> Unit]

\* `for (k, v) in m`: next is called until it yields None
RECURSIVE Drain(_)
Drain(m) ==
    LET n == next(m)
    IN  IF n.res.tag = "none" THEN [map |-> n.map, items |-> <<>>]
        ELSE LET rest == Drain(n.map)
             IN  [map |-> rest.map, items |-> <<n.res.val>> \o rest.items]

\* ------------------------------------------------------------- the chain
MaxNodes == 3
MaxCalls == 5
MaxTextLen == 1

NullPtr == "<null>"
Texts == {"the", "cat"}
Words == Texts \cup {NullPtr}

\* the ids a caller gives to the nodes it places
Ids == {1, 2}

\* the comparison without the null test
compare_noNullCheck(ptr1, ptr2) == ptr1 = ptr2

\* util.rs: a null reference on either side compares unequal
compare_const_strs(ptr1, ptr2) ==
    IF ptr1 = NullPtr \/ ptr2 = NullPtr THEN FALSE ELSE ptr1 = ptr2

MarkovNode(data, id, links) == [data |-> data, id |-> id, links |-> links]

create_markov_chain ==
    [root |-> MarkovNode("", 0, map_create),
     nodes |-> <<>>,
     nodes_map |-> map_create,
     all_portions |-> 0,
     newest_id |-> 0]

\* the scan of val.links.clone() (types.rs 169-175): the first pair whose
\* node, looked up in nodes_map, has the text of to_word
RECURSIVE LinkScan(_, _, _)
LinkScan(c, it, to_word) ==
    LET n == next(it)
    IN  IF n.res.tag = "none" THEN [tag |-> "nomatch"]
        ELSE LET val2 == n.res.val[1]
                 portions == n.res.val[2]
                 target == index(c.nodes_map, val2)
             IN  IF target.tag = "panic" THEN [tag |-> "panic"]
                 ELSE IF compare_const_strs(target.val.data, to_word)
                      THEN [tag |-> "match", val2 |-> val2, portions |-> portions]
                      ELSE LinkScan(c, n.map, to_word)

\* the second scan that never finds the node
NodeScan_neverFinds(ns, to_word) == 0

\* the second scan (types.rs 176-183): 1-based position of the first node
\* with the text of to_word, 0 when there is none
NodeScan(ns, to_word) ==
    IF \E j \in 1..Len(ns) : compare_const_strs(ns[j].data, to_word)
    THEN Lowest({j \in 1..Len(ns) : compare_const_strs(ns[j].data, to_word)})
    ELSE 0

\* the body run for the snapshot node val at position i (types.rs 169-191);
\* stop tells whether the call returned or panicked
TrainBody(c, val, i, to_word) ==
    LET e == LinkScan(c, clone(val.links), to_word)
        j == NodeScan(clone(c.nodes), to_word)
        id == c.newest_id + 1
    IN  IF e.tag = "panic" THEN [c |-> c, stop |-> TRUE, res |-> Panic]
        ELSE IF e.tag = "match"
        THEN LET w == index_mut(c.nodes[i].links, e.val2, e.portions + 1)
             IN  IF w.res.tag = "panic"
                 THEN [c |-> c, stop |-> TRUE, res |-> Panic]
                 ELSE [c |-> [c EXCEPT !.nodes[i].links = w.map,
                                       !.all_portions = @ + 1],
                       stop |-> TRUE, res |-> Unit]
        ELSE IF j # 0
        THEN [c |-> [c EXCEPT !.nodes[i].links = add(@, j - 1, 1)],
              stop |-> TRUE, res |-> Unit]
        ELSE [c |-> [c EXCEPT !.newest_id = id,
                              !.nodes = [Append(@, MarkovNode(to_word, id, map_create))
                                            EXCEPT ![i].links = add(@, id, 1)]],
              stop |-> FALSE, res |-> Unit]

\* the loop with the first comparison made against to_word
RECURSIVE TrainLoop_comparesToWord(_, _, _, _, _)
TrainLoop_comparesToWord(c, snapshot, i, from_word, to_word) ==
    IF i > Len(snapshot) THEN [c |-> c, res |-> Unit]
    ELSE IF compare_const_strs(snapshot[i].data, to_word)
         THEN LET b == TrainBody(c, snapshot[i], i, to_word)
              IN  IF b.stop THEN [c |-> b.c, res |-> b.res]
                  ELSE TrainLoop_comparesToWord(b.c, snapshot, i + 1, from_word, to_word)
         ELSE TrainLoop_comparesToWord(c, snapshot, i + 1, from_word, to_word)

\* the loop over self.nodes.clone() (types.rs 166-194)
RECURSIVE TrainLoop(_, _, _, _, _)
TrainLoop(c, snapshot, i, from_word, to_word) ==
    IF i > Len(snapshot) THEN [c |-> c, res |-> Unit]
    ELSE IF compare_const_strs(snapshot[i].data, from_word)
         THEN LET b == TrainBody(c, snapshot[i], i, to_word)
              IN  IF b.stop THEN [c |-> b.c, res |-> b.res]
                  ELSE TrainLoop(b.c, snapshot, i + 1, from_word, to_word)
         ELSE TrainLoop(c, snapshot, i + 1, from_word, to_word)

\* train_word that creates the node of an unknown from_word
train_word_createsSource(c, from_word, to_word) ==
    IF from_word # NullPtr /\ \A i \in 1..Len(c.nodes) : c.nodes[i].data # from_word
    THEN [c |-> [c EXCEPT !.newest_id = @ + 1,
                          !.nodes = Append(@, MarkovNode(from_word, c.newest_id + 1,
                                                         map_create))],
          res |-> Unit]
    ELSE TrainLoop(c, clone(c.nodes), 1, from_word, to_word)

train_word(c, from_word, to_word) ==
    TrainLoop(c, clone(c.nodes), 1, from_word, to_word)

\* train_text: the text is lower-cased and stripped of every character that
\* is neither a word character nor white space; the result is dropped
Alphabet == {"A", "a", "!", " "}

to_lowercase(ch) == IF ch = "A" THEN "a" ELSE ch

IsWordOrSpace(ch) == ch \in {"A", "a", " "}

RECURSIVE Normalize(_)
Normalize(text) ==
    IF text = <<>> THEN <<>>
    ELSE LET ch == to_lowercase(Head(text))
         IN  (IF IsWordOrSpace(ch) THEN <<ch>> ELSE <<>>) \o Normalize(Tail(text))

\* train_text that records an adjacency
train_text_trains(c, text) ==
    [c |-> TrainLoop(c, clone(c.nodes), 1, "the", "cat").c, res |-> Unit,
     local |-> Normalize(text)]

train_text(c, text) == [c |-> c, res |-> Unit, local |-> Normalize(text)]

RawTexts == UNION {[1..n -> Alphabet] : n \in 0..MaxTextLen}

VARIABLES map, mres, mlast, mprev, ins, used, mcalls, nexts, drained

mapVars == <<map, mres, mlast, mprev, ins, used, mcalls, nexts, drained>>

VARIABLES root, nodes, nodes_map, all_portions, newest_id, outcome, last, prev, calls

chainVars == <<root, nodes, nodes_map, all_portions, newest_id, outcome, last, prev, calls>>

vars == <<mapVars, chainVars>>

Chain ==
    [root |-> root, nodes |-> nodes, nodes_map |-> nodes_map,
     all_portions |-> all_portions, newest_id |-> newest_id]

\* ------------------------------------------------ the Map state machine
MapInit ==
    /\ map = map_create
    /\ mres = Unit
    /\ mlast = [op |-> "map_create", key |-> 0, val |-> 0, res |-> Unit,
                before |-> map_create, drained |-> FALSE]
    /\ mprev = mlast
    /\ ins = <<>>
    /\ used = {}
    /\ mcalls = 0
    /\ nexts = 0
    /\ drained = FALSE

\* bookkeeping shared by every Map operation: the call that was made, the one
\* before it, the operations used so far, the pairs handed to insert/add, the
\* number of next calls, and whether next has yielded None with no entry
\* appended since
Record(op, k, v, res, pairs) ==
    /\ mres.tag # "panic"
    /\ mcalls < MaxOps
    /\ mcalls' = mcalls + 1
    /\ mres' = res
    /\ mprev' = mlast
    /\ mlast' = [op |-> op, key |-> k, val |-> v, res |-> res, before |-> map,
                 drained |-> drained]
    /\ used' = used \cup {op}
    /\ ins' = ins \o pairs
    /\ nexts' = IF op = "next" THEN nexts + 1 ELSE nexts
    /\ drained' = IF op = "next" /\ res = None THEN TRUE
                  ELSE IF Len(map'.keys) > Len(map.keys) THEN FALSE
                  ELSE drained
    /\ UNCHANGED chainVars

Insert ==
    \E k \in Keys, v \in Vals :
        /\ Len(map.keys) < MaxLen
        /\ map' = insert(map, k, v)
        /\ Record("insert", k, v, Unit, <<(<<k, v>>)>>)

Set ==
    \E k \in Keys, v \in Vals :
        /\ map' = set(map, k, v).map
        /\ Record("set", k, v, Bool(set(map, k, v).res), <<>>)

Add ==
    \E k \in Keys, v \in Vals :
        /\ has(map, k) \/ Len(map.keys) < MaxLen
        /\ map' = add(map, k, v)
        /\ Record("add", k, v, Unit, <<(<<k, v>>)>>)

Get ==
    \E k \in Keys :
        /\ map' = map
        /\ Record("get", k, 0, get(map, k), <<>>)

Has ==
    \E k \in Keys :
        /\ map' = map
        /\ Record("has", k, 0, Bool(has(map, k)), <<>>)

IterNext ==
    /\ map.iterator_idx < MaxIter
    /\ map' = next(map).map
    /\ Record("next", 0, 0, next(map).res, <<>>)

IndexRead ==
    \E k \in Keys :
        /\ map' = map
        /\ Record("index", k, 0, index(map, k), <<>>)

IndexWrite ==
    \E k \in Keys, v \in Vals :
        /\ map' = index_mut(map, k, v).map
        /\ Record("index_mut", k, v, index_mut(map, k, v).res, <<>>)

MapNext ==
    \/ Insert
    \/ Set
    \/ Add
    \/ Get
    \/ Has
    \/ IterNext
    \/ IndexRead
    \/ IndexWrite

\* ---------------------------------------------- the chain state machine
ChainInit ==
    /\ root = create_markov_chain.root
    /\ nodes = create_markov_chain.nodes
    /\ nodes_map = create_markov_chain.nodes_map
    /\ all_portions = create_markov_chain.all_portions
    /\ newest_id = create_markov_chain.newest_id
    /\ outcome = Unit
    /\ last = [op |-> "create_markov_chain", from |-> NullPtr, to |-> NullPtr,
               res |-> Unit, before |-> create_markov_chain]
    /\ prev = last
    /\ calls = 0

Init == MapInit /\ ChainInit

\* the chain after a call, and the record of the call
Becomes(c, op, from_word, to_word, res) ==
    /\ calls < MaxCalls
    /\ Len(c.nodes) <= MaxNodes
    /\ root' = c.root
    /\ nodes' = c.nodes
    /\ nodes_map' = c.nodes_map
    /\ all_portions' = c.all_portions
    /\ newest_id' = c.newest_id
    /\ outcome' = res
    /\ prev' = last
    /\ last' = [op |-> op, from |-> from_word, to |-> to_word, res |-> res,
                before |-> Chain]
    /\ calls' = calls + 1
    /\ UNCHANGED mapVars

TrainWord ==
    \E from_word \in Words, to_word \in Words :
        /\ outcome.tag # "panic"
        /\ Becomes(train_word(Chain, from_word, to_word).c, "train_word",
                   from_word, to_word, train_word(Chain, from_word, to_word).res)

TrainText ==
    \E text \in RawTexts :
        /\ outcome.tag # "panic"
        /\ Becomes(train_text(Chain, text).c, "train_text", NullPtr, NullPtr,
                   train_text(Chain, text).res)

\* the caller writes the public field nodes: a node with no edges is pushed
PushNode ==
    \E data \in Texts, id \in Ids :
        /\ outcome.tag # "panic"
        /\ Len(nodes) < MaxNodes
        /\ Becomes([Chain EXCEPT !.nodes = Append(@, MarkovNode(data, id, map_create))],
                   "push_node", data, NullPtr, Unit)

\* the caller writes the public field nodes_map: a node of nodes is stored
\* under its id
RegisterNode ==
    \E i \in 1..Len(nodes) :
        /\ outcome.tag # "panic"
        /\ Becomes([Chain EXCEPT !.nodes_map = add(@, nodes[i].id, clone(nodes[i]))],
                   "register_node", nodes[i].data, NullPtr, Unit)

Next ==
    \/ TrainWord
    \/ TrainText
    \/ PushNode
    \/ RegisterNode

Spec == Init /\ [][Next]_vars

MapSpec == Init /\ [][MapNext]_vars

\* a chain that only create_markov_chain, train_word and train_text touch
NextTrainOnly ==
    \/ TrainWord
    \/ TrainText

SpecTrainOnly == Init /\ [][NextTrainOnly]_vars

\* ------------------------------------------------- notions of the claims
\* node n of chain c has the (non-null) text w
IsText(n, w) == w # NullPtr /\ n.data = w

NodesWithText(c, w) == {i \in 1..Len(c.nodes) : IsText(c.nodes[i], w)}

\* positions of the edges of node n that lead to a node of c with text w:
\* an edge leads to the node whose id is the edge's key
EdgesTo(c, n, w) ==
    {p \in 1..Len(n.links.keys) :
        \E j \in 1..Len(c.nodes) :
            c.nodes[j].id = n.links.keys[p] /\ IsText(c.nodes[j], w)}

RECURSIVE SumSeq(_)
SumSeq(s) == IF s = <<>> THEN 0 ELSE Head(s) + SumSeq(Tail(s))

RECURSIVE EdgeSum(_)
EdgeSum(ns) ==
    IF ns = <<>> THEN 0 ELSE SumSeq(Head(ns).links.values) + EdgeSum(Tail(ns))

DistinctIds(ns) ==
    \A i, j \in 1..Len(ns) : i # j => ns[i].id # ns[j].id

DistinctTexts(ns) ==
    \A i, j \in 1..Len(ns) : i # j => ns[i].data # ns[j].data

\* nodes and nodes_map hold the same nodes: one entry per node, under its id,
\* with the same content, and no entry for an id that no node has
Agree(c) ==
    /\ \A i \in 1..Len(c.nodes) :
          /\ Cardinality(Matches(c.nodes_map, c.nodes[i].id)) = 1
          /\ get(c.nodes_map, c.nodes[i].id) = Some(c.nodes[i])
    /\ \A p \in 1..Len(c.nodes_map.keys) :
          \E i \in 1..Len(c.nodes) : c.nodes[i].id = c.nodes_map.keys[p]

\* the one node of c with text w
TheNode(c, w) == c.nodes[CHOOSE i \in NodesWithText(c, w) : TRUE]

\* a chain in which train_word(A, B) meets a known A with no edge to B
KnownWithoutEdge(c, A, B) ==
    /\ Cardinality(NodesWithText(c, A)) = 1
    /\ B # NullPtr
    /\ EdgesTo(c, TheNode(c, A), B) = {}

\* A's node has exactly one edge to B's node, of weight w
OneEdge(c, A, B, w) ==
    /\ Cardinality(NodesWithText(c, A)) = 1
    /\ Cardinality(EdgesTo(c, TheNode(c, A), B)) = 1
    /\ \A p \in EdgesTo(c, TheNode(c, A), B) : TheNode(c, A).links.values[p] = w

\* ------------------------------------------------------------------ C1
\* C1: when A is a known node without an edge to B, one train_word(A, B)
\* leaves A with exactly one edge to B of weight 1, and a second
\* train_word(A, B) returns normally, leaves that one edge with weight 2 and
\* raises all_portions by exactly 1.
C1_WeightAccumulation ==
    /\ (/\ last.op = "train_word"
        /\ KnownWithoutEdge(last.before, last.from, last.to))
       => (outcome = Unit /\ OneEdge(Chain, last.from, last.to, 1))
    /\ (/\ last.op = "train_word"
        /\ prev.op = "train_word"
        /\ last.from = prev.from
        /\ last.to = prev.to
        /\ KnownWithoutEdge(prev.before, prev.from, prev.to))
       => (/\ outcome = Unit
           /\ OneEdge(Chain, last.from, last.to, 2)
           /\ all_portions = last.before.all_portions + 1)

\* ------------------------------------------------------------------ C2
\* C2: after every completed train_word call all_portions equals the sum of
\* the weights of all edges of all nodes (the root included).
C2_TotalIsEdgeSum ==
    (last.op = "train_word" /\ outcome = Unit)
       => all_portions = EdgeSum(<<root>> \o nodes)

\* ------------------------------------------------------------------ C3
\* C3: train_word keeps nodes and nodes_map in agreement: called on a chain
\* in which they agree, it leaves a chain in which they agree.
C3_NodesAgreeWithMap ==
    (last.op = "train_word" /\ Agree(last.before)) => Agree(Chain)

\* ------------------------------------------------------------------ C4
\* C4: every node created by train_word has an id greater than the id of
\* every node that was in the chain before it, so ids stay pairwise distinct;
\* non-root nodes have id > 0 and the root keeps id 0 and the empty text.
C4_IdMonotonicity ==
    /\ root.id = 0
    /\ root.data = ""
    /\ \A i \in 1..Len(nodes) : nodes[i].id > 0
    /\ last.op = "train_word" =>
          /\ \A i \in 1..Len(nodes) : \A j \in 1..Len(nodes) :
                (i > Len(last.before.nodes) /\ j < i) => nodes[i].id > nodes[j].id
          /\ DistinctIds(last.before.nodes) => DistinctIds(nodes)

\* ------------------------------------------------------------------ C5
\* C5: add(k, v1) followed by add(k, v2): the second call leaves the number
\* of entries with key k as it was (exactly one when k was absent before the
\* first call), has(k) is true, get(k) is v2, and no other entry changes.
C5_Upsert ==
    (mlast.op = "add" /\ mprev.op = "add" /\ mlast.key = mprev.key)
       => LET k == mlast.key
              b == mlast.before
          IN  /\ Cardinality(Matches(map, k)) = Cardinality(Matches(b, k))
              /\ Matches(mprev.before, k) = {} => Cardinality(Matches(map, k)) = 1
              /\ has(map, k)
              /\ get(map, k) = Some(mlast.val)
              /\ map.keys = b.keys
              /\ Len(map.values) = Len(b.values)
              /\ map.iterator_idx = b.iterator_idx
              /\ \A i \in 1..Len(b.values) :
                    i # Lowest(Matches(b, k)) => map.values[i] = b.values[i]

\* two adds of a key that was absent, with different values, next to another
\* entry
C5_Witness ==
    /\ mlast.op = "add"
    /\ mprev.op = "add"
    /\ mlast.key = mprev.key
    /\ mlast.val # mprev.val
    /\ Matches(mprev.before, mlast.key) = {}
    /\ Len(map.keys) >= 2

\* ------------------------------------------------------------------ C6
DistinctKeys(pairs) ==
    \A i, j \in 1..Len(pairs) : i # j => pairs[i][1] # pairs[j][1]

\* C6: after insert/add calls with pairwise distinct keys on an empty map, a
\* traversal yields the pairs of the calls, each once, in the order of the
\* calls, and then yields absent.
C6_InsertionOrder ==
    (used \subseteq {"insert", "add"} /\ DistinctKeys(ins))
       => /\ Drain(clone(map)).items = ins
          /\ next(Drain(clone(map)).map).res = None

\* an insert and an add, of different keys
C6_Witness ==
    /\ used = {"insert", "add"}
    /\ DistinctKeys(ins)
    /\ Len(ins) >= 2
    /\ Len(map.keys) = Len(ins)

\* ------------------------------------------------------------------ C7
\* C7: train_word(A, B) on a chain without a node of text A returns normally
\* and leaves root, nodes, nodes_map, all_portions and newest_id as they were.
C7_SilentDrop ==
    (last.op = "train_word" /\ NodesWithText(last.before, last.from) = {})
       => (outcome = Unit /\ Chain = last.before)

\* a silent drop on a chain that has nodes, among them one with the text of B
C7_Witness ==
    /\ last.op = "train_word"
    /\ last.from \in Texts
    /\ NodesWithText(last.before, last.from) = {}
    /\ NodesWithText(last.before, last.to) # {}
    /\ outcome = Unit

\* ------------------------------------------------------------------ C8
\* C8: no train_word call on a chain whose nodes have distinct texts and
\* distinct ids ends in the panic of a keyed indexed access.
C8_TrainingNeverPanics ==
    (/\ last.op = "train_word"
     /\ last.from # NullPtr
     /\ last.to # NullPtr
     /\ DistinctTexts(last.before.nodes)
     /\ DistinctIds(last.before.nodes))
       => outcome # Panic

\* ------------------------------------------------------------------ C9
\* C9: after insert(k, v1) and insert(k, v2) on a map without k there are two
\* entries for k; get, has and keyed read see the first (v1), and set(k, v3)
\* overwrites the first and leaves the second at v2.
C9_FirstMatchShadowing ==
    (/\ mlast.op = "insert"
     /\ mprev.op = "insert"
     /\ mlast.key = mprev.key
     /\ Matches(mprev.before, mlast.key) = {})
       => LET k == mlast.key
              first == Len(mprev.before.keys) + 1
          IN  /\ Matches(map, k) = {first, first + 1}
              /\ get(map, k) = Some(mprev.val)
              /\ has(map, k)
              /\ index(map, k) = Some(mprev.val)
              /\ \A v3 \in Vals :
                    /\ set(map, k, v3).res
                    /\ set(map, k, v3).map.values[first] = v3
                    /\ set(map, k, v3).map.values[first + 1] = mlast.val
                    /\ set(map, k, v3).map.keys = map.keys

\* two raw inserts of an absent key with different values
C9_Witness ==
    /\ mlast.op = "insert"
    /\ mprev.op = "insert"
    /\ mlast.key = mprev.key
    /\ mlast.val # mprev.val
    /\ Matches(mprev.before, mlast.key) = {}

\* ----------------------------------------------------------------- C10
NoSharedKey(m) ==
    \A i, j \in 1..Len(m.keys) : i # j => m.keys[i] # m.keys[j]

\* C10: keys and values have equal length, no operation lowers the number of
\* entries, and a map never touched by raw insert has no two entries with the
\* same key.
C10_MapStructure ==
    /\ Len(map.keys) = Len(map.values)
    /\ Len(map.keys) >= Len(mlast.before.keys)
    /\ "insert" \notin used => NoSharedKey(map)

\* a map of two entries built and rewritten without raw insert
C10_Witness ==
    /\ {"add", "set", "index_mut"} \subseteq used
    /\ "insert" \notin used
    /\ Len(map.keys) >= 2
    /\ mres.tag # "panic"

\* ----------------------------------------------------------------- C11
\* m with the value of the first entry of key k replaced by v, nothing else
FirstReplaced(m, k, v) ==
    [m EXCEPT !.values = [i \in 1..Len(m.values) |->
                            IF i = Lowest(Matches(m, k)) THEN v ELSE m.values[i]]]

\* C11: map[k] and map[k] = v panic on a map without k and leave it as it
\* was; with k present the read returns the value of the first entry of k
\* (what get(k) returns) and the write replaces that entry's value only;
\* has(k) is true exactly when the access does not panic.
C11_KeyedIndexedAccess ==
    /\ mlast.op = "index" =>
          /\ map = mlast.before
          /\ has(mlast.before, mlast.key) <=> mres # Panic
          /\ Matches(mlast.before, mlast.key) = {} => mres = Panic
          /\ Matches(mlast.before, mlast.key) # {} =>
                /\ mres = Some(mlast.before.values[Lowest(Matches(mlast.before, mlast.key))])
                /\ mres = get(mlast.before, mlast.key)
    /\ mlast.op = "index_mut" =>
          /\ has(mlast.before, mlast.key) <=> mres # Panic
          /\ Matches(mlast.before, mlast.key) = {} =>
                (mres = Panic /\ map = mlast.before)
          /\ Matches(mlast.before, mlast.key) # {} =>
                (mres = Unit /\ map = FirstReplaced(mlast.before, mlast.key, mlast.val))

\* an indexed write on a map with two entries of the key, the first of which
\* held another value
C11_Witness ==
    /\ mlast.op = "index_mut"
    /\ Cardinality(Matches(mlast.before, mlast.key)) = 2
    /\ get(mlast.before, mlast.key) # Some(mlast.val)
    /\ mres = Unit

\* ----------------------------------------------------------------- C12
\* C12: set(key, value) on a map with the key replaces the value of the first
\* entry of the key, leaves every other entry and the order of the keys, and
\* returns true; on a map without the key it returns false and leaves keys,
\* values and the traversal position as they were.
C12_Set ==
    mlast.op = "set" =>
       /\ Matches(mlast.before, mlast.key) # {} =>
             /\ mres = Bool(TRUE)
             /\ map = FirstReplaced(mlast.before, mlast.key, mlast.val)
             /\ map.keys = mlast.before.keys
       /\ Matches(mlast.before, mlast.key) = {} =>
             /\ mres = Bool(FALSE)
             /\ map.keys = mlast.before.keys
             /\ map.values = mlast.before.values
             /\ map.iterator_idx = mlast.before.iterator_idx

\* a set on a map with two entries of the key, both holding another value
C12_Witness ==
    /\ mlast.op = "set"
    /\ Cardinality(Matches(mlast.before, mlast.key)) = 2
    /\ \A i \in Matches(mlast.before, mlast.key) : mlast.before.values[i] # mlast.val
    /\ mres = Bool(TRUE)

\* ----------------------------------------------------------------- C13
\* C13: a traversal from the start of a map of n entries yields n pairs and
\* then absent; once next has yielded absent and nothing was inserted since,
\* every further next yields absent, without a panic and without a pair, so
\* the drained handle shows no entry again.
C13_TraversalExhaustion ==
    /\ map.iterator_idx = 0 =>
          /\ Len(Drain(map).items) = Len(map.keys)
          /\ next(Drain(map).map).res = None
    /\ (mlast.op = "next" /\ mlast.drained) => mres = None
    /\ drained => Drain(map).items = <<>>

\* next on a drained handle of a map that has entries
C13_Witness ==
    /\ mlast.op = "next"
    /\ mlast.drained
    /\ Len(map.keys) >= 1
    /\ mres = None

\* ----------------------------------------------------------------- C20
\* C20: every next call advances the position by one, also when it yields
\* absent, and a clone carries the position; the m-th next call yields the
\* entry at index m - 1 when the map has at least m entries at that time and
\* absent otherwise, so an entry appended at an index the calls have passed
\* is never yielded.
C20_PositionAlwaysAdvances ==
    /\ map.iterator_idx = nexts
    /\ Drain(clone(map)).items =
          [i \in 1..(IF Len(map.keys) > nexts THEN Len(map.keys) - nexts ELSE 0) |->
              <<map.keys[nexts + i], map.values[nexts + i]>>]
    /\ mlast.op = "next" =>
          /\ map.iterator_idx = mlast.before.iterator_idx + 1
          /\ Len(mlast.before.keys) >= nexts =>
                mres = Some(<<mlast.before.keys[nexts], mlast.before.values[nexts]>>)
          /\ Len(mlast.before.keys) < nexts => mres = None

\* next yields absent although the map has an entry: the entry was appended
\* after the calls had passed its index
C20_Witness ==
    /\ mlast.op = "next"
    /\ mres = None
    /\ ~mlast.drained
    /\ Len(mlast.before.keys) >= 1
    /\ nexts > Len(mlast.before.keys)

\* ----------------------------------------------------------------- C14
\* node n carries every edge of node o, in the same order, with a weight that
\* is not lower
EdgesKept(o, n) ==
    /\ Len(n.links.keys) >= Len(o.links.keys)
    /\ \A p \in 1..Len(o.links.keys) :
          /\ n.links.keys[p] = o.links.keys[p]
          /\ n.links.values[p] >= o.links.values[p]

\* C14: a train_word or train_text call removes no node, keeps the order,
\* text and id of the nodes, removes no edge, lowers no edge weight, lowers
\* neither all_portions nor newest_id, and raises newest_id when it creates a
\* node.
C14_ChainOnlyGrows ==
    last.op \in {"train_word", "train_text"} =>
       /\ Len(nodes) >= Len(last.before.nodes)
       /\ \A i \in 1..Len(last.before.nodes) :
             /\ nodes[i].data = last.before.nodes[i].data
             /\ nodes[i].id = last.before.nodes[i].id
             /\ EdgesKept(last.before.nodes[i], nodes[i])
       /\ EdgesKept(last.before.root, root)
       /\ all_portions >= last.before.all_portions
       /\ newest_id >= last.before.newest_id
       /\ Len(nodes) > Len(last.before.nodes) => newest_id > last.before.newest_id

\* ----------------------------------------------------------------- C15
\* C15 as claimed: train_word with a null from_word or to_word on a chain
\* with at least one node ends in a fatal error.
C15_NullIsFatal ==
    (/\ last.op = "train_word"
     /\ (last.from = NullPtr \/ last.to = NullPtr)
     /\ Len(last.before.nodes) >= 1)
       => outcome = Panic

\* C15 as amended: a comparison in which either reference is null yields
\* false, an ordinary mismatch; train_word with a null from_word returns
\* normally and leaves the chain as it was, and train_word with a null
\* to_word that returns has incremented no edge.
C15_NullIsMismatch ==
    /\ \A w \in Words :
          ~compare_const_strs(NullPtr, w) /\ ~compare_const_strs(w, NullPtr)
    /\ (last.op = "train_word" /\ last.from = NullPtr)
          => (outcome = Unit /\ Chain = last.before)
    /\ (last.op = "train_word" /\ last.to = NullPtr /\ outcome = Unit)
          => all_portions = last.before.all_portions

\* train_word with a null from_word on a chain that holds a node whose text
\* reference is null as well
C15_Witness ==
    /\ last.op = "train_word"
    /\ last.from = NullPtr
    /\ \E i \in 1..Len(last.before.nodes) : last.before.nodes[i].data = NullPtr
    /\ outcome = Unit

\* ----------------------------------------------------------------- C16
\* C16: an edge added by train_word(A, B) has as key the id of the node with
\* text B and weight 1, and every key of every edge map is the id of a node
\* of the chain (the root included).
C16_EdgeKeysAreIds ==
    /\ (last.op = "train_word" /\ last.to # NullPtr) =>
          \A i \in 1..Len(last.before.nodes) :
             Len(nodes[i].links.keys) > Len(last.before.nodes[i].links.keys) =>
                LET p == Len(nodes[i].links.keys)
                IN  /\ nodes[i].links.values[p] = 1
                    /\ \E j \in 1..Len(nodes) :
                          /\ nodes[j].id = nodes[i].links.keys[p]
                          /\ nodes[j].data = last.to
    /\ \A i \in 1..Len(nodes) : \A p \in 1..Len(nodes[i].links.keys) :
          \/ nodes[i].links.keys[p] = root.id
          \/ \E j \in 1..Len(nodes) : nodes[j].id = nodes[i].links.keys[p]

\* ----------------------------------------------------------------- C17
\* no two nodes carry the same (non-null) text
OneNodePerWord(ns) ==
    \A i, j \in 1..Len(ns) :
        (i # j /\ ns[i].data # NullPtr) => ns[i].data # ns[j].data

\* C17: train_word on a chain whose nodes have pairwise distinct texts leaves
\* pairwise distinct texts, appends at most one node, appends it only when no
\* node had the text of to_word, and appends none when from_word = to_word
\* is a known word.
C17_OneNodePerWord ==
    (last.op = "train_word" /\ OneNodePerWord(last.before.nodes)) =>
       /\ OneNodePerWord(nodes)
       /\ Len(nodes) <= Len(last.before.nodes) + 1
       /\ Len(nodes) > Len(last.before.nodes) =>
             NodesWithText(last.before, last.to) = {}
       /\ (last.from = last.to /\ NodesWithText(last.before, last.from) # {}) =>
             Len(nodes) = Len(last.before.nodes)

\* train_word has appended a node to a chain that had two
C17_Witness ==
    /\ last.op = "train_word"
    /\ OneNodePerWord(last.before.nodes)
    /\ Len(last.before.nodes) = 2
    /\ Len(nodes) = 3

\* ----------------------------------------------------------------- C18
\* C18: train_text returns normally and leaves root, nodes, nodes_map,
\* all_portions and newest_id as they were.
C18_TrainTextTrainsNothing ==
    last.op = "train_text" => (outcome = Unit /\ Chain = last.before)

\* train_text on a chain in which "the" is known and has no edge
C18_Witness ==
    /\ last.op = "train_text"
    /\ \E i \in 1..Len(nodes) : nodes[i].data = "the" /\ nodes[i].links.keys = <<>>

\* ----------------------------------------------------------------- C19
\* C19: a chain driven only through train_word and train_text stays as
\* create_markov_chain made it: no nodes, an empty nodes_map, a root without
\* edges, all_portions = 0 and newest_id = 0.
C19_TrainingAloneChangesNothing ==
    /\ nodes = <<>>
    /\ nodes_map.keys = <<>>
    /\ nodes_map.values = <<>>
    /\ root = MarkovNode("", 0, map_create)
    /\ all_portions = 0
    /\ newest_id = 0
    /\ outcome = Unit

\* two train_word calls with words, the second with the first's target as
\* its source
C19_Witness ==
    /\ last.op = "train_word"
    /\ prev.op = "train_word"
    /\ prev.from \in Texts
    /\ prev.to \in Texts
    /\ last.from = prev.to
    /\ last.to \in Texts

====
